---- MODULE Spec2Model ----
(***************************************************************************)
(* A model of the Fitbit API client (fitbit_api/__init__.py): the three    *)
(* alternate constructors of FitbitClient, refresh_token, the dispatcher   *)
(* _request with its single refresh-and-retry, and a representative set of *)
(* the generated endpoint methods, each translated statement by statement. *)
(*                                                                         *)
(* The OAuth2 session (requests_oauthlib), the vendor's token endpoint,    *)
(* the HTTP transport and the caller's persistence callback are outside    *)
(* the repository.  They are modelled by their contracts: the session      *)
(* stores the keyword arguments it is constructed with, fetch_token and    *)
(* refresh_token store the token the vendor returns, request raises        *)
(* TokenExpiredError when the stored token is past its expiry, a 429       *)
(* response carries a Retry-After header, and a callback returns normally. *)
(***************************************************************************)
EXTENDS Integers, Sequences, FiniteSets, TLC

(***************************************************************************)
(* Python values.  Every value is a record of the same shape so that any   *)
(* two values can be compared.                                             *)
(***************************************************************************)
PyNone == [type |-> "NoneType", s |-> "", n |-> 0, m |-> 0, d |-> 0]
PyStr(s) == [type |-> "str", s |-> s, n |-> 0, m |-> 0, d |-> 0]
PyDatetime(y, m, d) == [type |-> "datetime", s |-> "", n |-> y, m |-> m, d |-> d]
PyInt(n) == [type |-> "int", s |-> "", n |-> n, m |-> 0, d |-> 0]
PyBool(b) ==
    [type |-> "bool", s |-> "", n |-> IF b THEN 1 ELSE 0, m |-> 0, d |-> 0]

\* Mutant: a value counts as supplied whenever it is not None.
Truthy_NotNone(v) == v.type # "NoneType"

\* Python truth value of a value (a datetime is always true).
Truthy(v) ==
    CASE v.type = "NoneType" -> FALSE
      [] v.type = "str" -> v.s # ""
      [] v.type \in {"int", "bool"} -> v.n # 0
      [] OTHER -> TRUE

\* isinstance(v, datetime)
IsDatetime(v) == v.type = "datetime"

\* Mutant: month and day are written without zero padding.
Pad2_Unpadded(n) == ToString(n)

\* Zero-padded decimal fields of strftime.
Pad2(n) == IF n < 10 THEN "0" \o ToString(n) ELSE ToString(n)
Pad4(n) ==
    IF n < 10 THEN "000" \o ToString(n)
    ELSE IF n < 100 THEN "00" \o ToString(n)
    ELSE IF n < 1000 THEN "0" \o ToString(n)
    ELSE ToString(n)

\* date.strftime('%Y-%m-%d')
Strftime(v) == Pad4(v.n) \o "-" \o Pad2(v.m) \o "-" \o Pad2(v.d)

\* The statement  x = x.strftime('%Y-%m-%d') if x else ''
NormalizeDate(v) == IF Truthy(v) THEN PyStr(Strftime(v)) ELSE PyStr("")

\* str.replace(old, new) on plain strings: every non-overlapping occurrence
\* of old, scanning from the left.
RECURSIVE Replace(_, _, _)
Replace(s, old, new) ==
    IF Len(s) < Len(old) THEN s
    ELSE IF SubSeq(s, 1, Len(old)) = old
         THEN new \o Replace(SubSeq(s, Len(old) + 1, Len(s)), old, new)
         ELSE SubSeq(s, 1, 1) \o Replace(SubSeq(s, 2, Len(s)), old, new)

\* One link of a chain  template.replace(old, value): the running result is
\* [ok, s]; str.replace raises TypeError when value is not a str, and the
\* error ends the chain.
Template(s) == [ok |-> TRUE, s |-> s]
PyReplace(subject, old, v) ==
    IF ~subject.ok THEN subject
    ELSE IF v.type # "str" THEN [ok |-> FALSE, s |-> ""]
    ELSE [ok |-> TRUE, s |-> Replace(subject.s, old, v.s)]

\* x in list
InList(x, list) == \E i \in 1..Len(list) : list[i] = x

(***************************************************************************)
(* Bounds and input domains.                                               *)
(***************************************************************************)
\* Number of tokens the vendor issues in one run (exchange and refreshes).
MaxTokens == 2

ClientIds == {"ABC123"}
ClientSecrets == {"secretthings"}
CallbackUris == {"www.example.com/callback"}
RedirectUris == {"www.example.com/redirect"}
\* A token the caller persisted earlier and hands to create_using_token.
StoredTokens == {"123456789"}
\* The state values the session makes up for an authorization URL.
States == {"123", "q8Zx"}
\* The caller's persistence callbacks; NoCallback is Python's None.
NoCallback == "None"
Callbacks == {"save_token"}
\* Marks a required keyword argument the caller did not pass.
Missing == "<missing>"

\* The n-th token the vendor issues; NoToken is a session without a token.
Token(n) == "token-" \o ToString(n)
NoToken == ""

\* Mutant: the list without its repeated entry.
ALL_SCOPES_NoRepeat ==
    << "activity", "nutrition", "heartrate", "location",
       "profile", "settings", "sleep", "social", "weight" >>

ALL_SCOPES ==
    << "activity", "nutrition", "heartrate", "location", "nutrition",
       "profile", "settings", "sleep", "social", "weight" >>

\* The scope argument of a constructor: None, or a list of scope names.
ScopeNone == [given |-> FALSE, list |-> << >>]
ScopeList(l) == [given |-> TRUE, list |-> l]
ScopeArgs ==
    { ScopeNone,
      ScopeList(<< >>),
      ScopeList(<< "activity" >>),
      ScopeList(<< "profile", "heartrate", "location" >>),
      ScopeList(<< "activity", "heartrate", "location", "nutrition",
                   "profile", "settings", "sleep", "social" >>) }

\* scope = scope or ALL_SCOPES
\* Mutant: only None falls back to the default; an empty list is kept.
ScopeOrAll_EmptyKept(scope) ==
    IF scope.given THEN scope.list ELSE ALL_SCOPES

ScopeOrAll(scope) ==
    IF scope.given /\ scope.list # << >> THEN scope.list ELSE ALL_SCOPES

(***************************************************************************)
(* The session object and the client.                                      *)
(***************************************************************************)
\* cls._OAuth2Session(client_id=..., redirect_uri=..., scope=..., token=...,
\* token_updater=...): the session keeps its keyword arguments.
OAuth2Session(client_id, redirect_uri, scope, token, token_updater) ==
    [client_id |-> client_id, redirect_uri |-> redirect_uri, scope |-> scope,
     token |-> token, token_updater |-> token_updater]

NoSession == OAuth2Session("", "", << >>, NoToken, NoCallback)

\* FitbitClient.__init__(session, client_secret)
FitbitClient(session, client_secret) ==
    [exists |-> TRUE, session |-> session, client_secret |-> client_secret]

NoClient == [exists |-> FALSE, session |-> NoSession, client_secret |-> ""]

AllThreads == {"t1", "t2"}
MainThreads == {"t1"}

VARIABLES
    client,     \* the FitbitClient the caller holds, or NoClient
    ctor,       \* what the last constructor call was given and what it did
    issued,     \* number of tokens the vendor has issued
    expired,    \* tokens past their expiry
    consumed,   \* refresh tokens the vendor has been presented with
    th          \* per thread: the endpoint call in progress

vars == << client, ctor, issued, expired, consumed, th >>

NoArgs ==
    [token |-> NoToken, client_id |-> "", client_secret |-> "",
     callback_uri |-> "", redirect_uri |-> "", scope |-> ScopeNone,
     new_token_callback |-> NoCallback]

\* The record of a constructor call: its arguments, the calls it made to the
\* token endpoint, the tokens it handed to the callback, and how it ended.
\* returned is the client as it was when the constructor returned it; url
\* and state are the authorization URL OAuth2_step_one returned and the
\* state value the session generated for it.
CtorRecord(op, args, fetches, cbArgs, result, exc, vendorToken, returned) ==
    [op |-> op, args |-> args, fetches |-> fetches, cbArgs |-> cbArgs,
     result |-> result, exc |-> exc, vendorToken |-> vendorToken,
     returned |-> returned, url |-> "", state |-> ""]

NoCtor == CtorRecord("none", NoArgs, 0, << >>, "none", "", NoToken, NoClient)

(***************************************************************************)
(* Constructors.                                                           *)
(***************************************************************************)
\* create_using_token(token, client_id, client_secret, callback_uri,
\*                    scope=None, new_token_callback=None)
\* client_secret has no default: a call that leaves it out is rejected by
\* the interpreter with TypeError before the body runs.
create_using_token(args) ==
    IF args.client_secret = Missing
    THEN [raised |-> TRUE, exc |-> "TypeError", client |-> NoClient]
    ELSE LET scope == ScopeOrAll(args.scope)
             session == OAuth2Session(args.client_id, args.callback_uri,
                                      scope, args.token,
                                      args.new_token_callback)
         IN [raised |-> FALSE, exc |-> "",
             client |-> FitbitClient(session, args.client_secret)]

CreateUsingToken ==
    /\ ~client.exists
    /\ \E token \in StoredTokens, client_id \in ClientIds,
          client_secret \in ClientSecrets \cup {Missing},
          callback_uri \in CallbackUris, scope \in ScopeArgs,
          cb \in Callbacks \cup {NoCallback} :
         LET args == [token |-> token, client_id |-> client_id,
                      client_secret |-> client_secret,
                      callback_uri |-> callback_uri, redirect_uri |-> "",
                      scope |-> scope, new_token_callback |-> cb]
             r == create_using_token(args)
         IN /\ client' = r.client
            /\ ctor' = CtorRecord("create_using_token", args, 0, << >>,
                                  IF r.raised THEN "raise" ELSE "client",
                                  r.exc, NoToken, r.client)
    /\ UNCHANGED << issued, expired, consumed, th >>

\* urllib's quoting of a query value, for the characters that occur in the
\* values used here.
Quote(str) == Replace(Replace(str, "/", "%2F"), ":", "%3A")

\* The scope list as one query value: the names joined by a space, which
\* the query encoding writes as '+'.
RECURSIVE JoinScope(_)
JoinScope(list) ==
    IF list = << >> THEN ""
    ELSE IF Len(list) = 1 THEN list[1]
    ELSE list[1] \o "+" \o JoinScope(Tail(list))

\* session.authorization_url(url): the grant URI the OAuth2 session builds
\* from its client_id, redirect_uri and scope and a state value it makes
\* up; it returns the pair (uri, state).
AuthorizationUrl(session, url, state) ==
    url \o "?response_type=code"
        \o "&client_id=" \o Quote(session.client_id)
        \o "&redirect_uri=" \o Quote(session.redirect_uri)
        \o "&scope=" \o JoinScope(session.scope)
        \o "&state=" \o state

\* Mutant: the URL is built for the token endpoint.
OAuth2_step_one_TokenEndpoint(args, state) ==
    LET scope == ScopeOrAll(args.scope)
        session == OAuth2Session(args.client_id, args.callback_uri, scope,
                                 NoToken, NoCallback)
    IN [session |-> session,
        url |-> AuthorizationUrl(session,
                    "https://api.fitbit.com/oauth2/token", state)]

\* OAuth2_step_one(client_id, callback_uri, scope=None): the session is
\* local to the call and only the URL is returned.
OAuth2_step_one(args, state) ==
    LET scope == ScopeOrAll(args.scope)
        session == OAuth2Session(args.client_id, args.callback_uri, scope,
                                 NoToken, NoCallback)
    IN [session |-> session,
        url |-> AuthorizationUrl(session,
                    "https://www.fitbit.com/oauth2/authorize", state)]

OAuth2StepOne ==
    /\ ~client.exists
    /\ \E client_id \in ClientIds, callback_uri \in CallbackUris,
          scope \in ScopeArgs, state \in States :
         LET args == [token |-> NoToken, client_id |-> client_id,
                      client_secret |-> "", callback_uri |-> callback_uri,
                      redirect_uri |-> "", scope |-> scope,
                      new_token_callback |-> NoCallback]
             r == OAuth2_step_one(args, state)
         IN ctor' = [CtorRecord("OAuth2_step_one", args, 0, << >>, "url", "",
                                NoToken, NoClient)
                        EXCEPT !.url = r.url, !.state = state]
    /\ UNCHANGED << client, issued, expired, consumed, th >>

\* OAuth2_step_two(client_id, client_secret, callback_uri, redirect_uri,
\*                 scope=None, new_token_callback=None)
\* session.fetch_token makes one call to the token endpoint; the vendor
\* either returns a new token, which the session stores, or rejects the
\* exchange, which raises out of the constructor.
\* Mutant: the new token is stored but never handed to the callback.
OAuth2_step_two_NoCallback(args, vendorAccepts, vendorToken) ==
    LET scope == ScopeOrAll(args.scope)
        session == OAuth2Session(args.client_id, args.callback_uri, scope,
                                 NoToken, args.new_token_callback)
    IN IF ~vendorAccepts
       THEN [raised |-> TRUE, exc |-> "InvalidGrantError", fetches |-> 1,
             cbArgs |-> << >>, client |-> NoClient]
       ELSE [raised |-> FALSE, exc |-> "", fetches |-> 1, cbArgs |-> << >>,
             client |-> FitbitClient([session EXCEPT !.token = vendorToken],
                                     args.client_secret)]

\* Mutant: a rejected exchange is ignored and a client without a token is
\* returned.
OAuth2_step_two_RejectIgnored(args, vendorAccepts, vendorToken) ==
    LET scope == ScopeOrAll(args.scope)
        session == OAuth2Session(args.client_id, args.callback_uri, scope,
                                 NoToken, args.new_token_callback)
    IN IF ~vendorAccepts
       THEN [raised |-> FALSE, exc |-> "", fetches |-> 1, cbArgs |-> << >>,
             client |-> FitbitClient(session, args.client_secret)]
       ELSE [raised |-> FALSE, exc |-> "", fetches |-> 1,
             cbArgs |-> IF args.new_token_callback # NoCallback
                        THEN << vendorToken >> ELSE << >>,
             client |-> FitbitClient([session EXCEPT !.token = vendorToken],
                                     args.client_secret)]

OAuth2_step_two(args, vendorAccepts, vendorToken) ==
    LET scope == ScopeOrAll(args.scope)
        session == OAuth2Session(args.client_id, args.callback_uri, scope,
                                 NoToken, args.new_token_callback)
    IN IF ~vendorAccepts
       THEN [raised |-> TRUE, exc |-> "InvalidGrantError", fetches |-> 1,
             cbArgs |-> << >>, client |-> NoClient]
       ELSE LET token == vendorToken
                session2 == [session EXCEPT !.token = token]
            IN [raised |-> FALSE, exc |-> "", fetches |-> 1,
                cbArgs |-> IF args.new_token_callback # NoCallback
                           THEN << token >> ELSE << >>,
                client |-> FitbitClient(session2, args.client_secret)]

OAuth2StepTwo ==
    /\ ~client.exists
    /\ \E client_id \in ClientIds, client_secret \in ClientSecrets,
          callback_uri \in CallbackUris, redirect_uri \in RedirectUris,
          scope \in ScopeArgs, cb \in Callbacks \cup {NoCallback},
          vendorAccepts \in BOOLEAN :
         /\ vendorAccepts => issued < MaxTokens
         /\ LET args == [token |-> NoToken, client_id |-> client_id,
                         client_secret |-> client_secret,
                         callback_uri |-> callback_uri,
                         redirect_uri |-> redirect_uri,
                         scope |-> scope, new_token_callback |-> cb]
                r == OAuth2_step_two(args, vendorAccepts, Token(issued + 1))
            IN /\ client' = r.client
               /\ ctor' = CtorRecord("OAuth2_step_two", args, r.fetches,
                                     r.cbArgs,
                                     IF r.raised THEN "raise" ELSE "client",
                                     r.exc,
                                     IF vendorAccepts THEN Token(issued + 1)
                                     ELSE NoToken,
                                     r.client)
               /\ issued' = IF vendorAccepts THEN issued + 1 ELSE issued
    /\ UNCHANGED << expired, consumed, th >>

\* fitbit.py, the hand-written module: its OAuth2_step_two builds the same
\* session and makes the same exchange, then calls new_token_callback
\* without testing it; calling None raises TypeError.  Its client takes the
\* session only.
Legacy_OAuth2_step_two(args, vendorAccepts, vendorToken) ==
    LET scope == ScopeOrAll(args.scope)
        session == OAuth2Session(args.client_id, args.callback_uri, scope,
                                 NoToken, args.new_token_callback)
    IN IF ~vendorAccepts
       THEN [raised |-> TRUE, exc |-> "InvalidGrantError", fetches |-> 1,
             cbArgs |-> << >>, client |-> NoClient]
       ELSE IF args.new_token_callback = NoCallback
       THEN [raised |-> TRUE, exc |-> "TypeError", fetches |-> 1,
             cbArgs |-> << >>, client |-> NoClient]
       ELSE [raised |-> FALSE, exc |-> "", fetches |-> 1,
             cbArgs |-> << vendorToken >>,
             client |-> FitbitClient([session EXCEPT !.token = vendorToken],
                                     "")]

\* The hand-written client is recorded as the constructor's result; its
\* calls are not followed further.
LegacyOAuth2StepTwo ==
    /\ ~client.exists
    /\ \E client_id \in ClientIds, client_secret \in ClientSecrets,
          callback_uri \in CallbackUris, redirect_uri \in RedirectUris,
          scope \in ScopeArgs, cb \in Callbacks \cup {NoCallback},
          vendorAccepts \in BOOLEAN :
         /\ vendorAccepts => issued < MaxTokens
         /\ LET args == [token |-> NoToken, client_id |-> client_id,
                         client_secret |-> client_secret,
                         callback_uri |-> callback_uri,
                         redirect_uri |-> redirect_uri,
                         scope |-> scope, new_token_callback |-> cb]
                r == Legacy_OAuth2_step_two(args, vendorAccepts,
                                            Token(issued + 1))
            IN /\ ctor' = CtorRecord("fitbit.OAuth2_step_two", args,
                                     r.fetches, r.cbArgs,
                                     IF r.raised THEN "raise" ELSE "client",
                                     r.exc,
                                     IF vendorAccepts THEN Token(issued + 1)
                                     ELSE NoToken,
                                     r.client)
               /\ issued' = IF vendorAccepts THEN issued + 1 ELSE issued
    /\ UNCHANGED << client, expired, consumed, th >>

(***************************************************************************)
(* Endpoint methods.  Each operator is the body of the method up to its    *)
(* call of the dispatcher: it either raises, or hands a verb, an endpoint  *)
(* and a parameter mapping to _get / _post.                                *)
(***************************************************************************)
\* A parameter mapping: None, or a dict kept as a set of <<key, value>>.
ParamsNone == [isNone |-> TRUE, items |-> {}]
ParamsDict(items) == [isNone |-> FALSE, items |-> items]
\* params[key] = value
SetItem(params, key, value) ==
    ParamsDict({kv \in params.items : kv[1] # key} \cup {<< key, value >>})

Raise(exc) ==
    [kind |-> "raise", exc |-> exc, missing |-> {}, verb |-> "",
     endpoint |-> "", params |-> ParamsNone]
\* raise InsufficientScope('... {missing_scope} ...')
RaiseInsufficientScope(missing_scope) ==
    [kind |-> "raise", exc |-> "InsufficientScope", missing |-> missing_scope,
     verb |-> "", endpoint |-> "", params |-> ParamsNone]
\* return self._get(endpoint, ...) and its siblings; a failed replace chain
\* has raised TypeError before the dispatcher is reached.
Dispatch(verb, endpoint, params) ==
    IF ~endpoint.ok THEN Raise("TypeError")
    ELSE [kind |-> "dispatch", exc |-> "", missing |-> {}, verb |-> verb,
          endpoint |-> endpoint.s, params |-> params]

\* Mutant: the check passes as soon as one required scope is granted.
ScopeInsufficient_Any(session, required_scope) ==
    ~(\E scope \in required_scope : InList(scope, session.scope))

\* not all(scope in self.session.scope for scope in required_scope)
ScopeInsufficient(session, required_scope) ==
    ~(\A scope \in required_scope : InList(scope, session.scope))
\* Mutant: the error names every required scope, granted or not.
MissingScope_AllRequired(session, required_scope) == required_scope

\* [scope for scope in required_scope if scope not in self.session.scope]
MissingScope(session, required_scope) ==
    {scope \in required_scope : ~InList(scope, session.scope)}

\* The required_scope set repeated in most endpoint methods.
FullRequiredScope ==
    {"activity", "heartrate", "location", "nutrition", "profile",
     "settings", "sleep", "social", "weight"}

\* The enum list of the activities resource_path.
ActivitiesResourceEnum ==
    << "calories", "caloriesBMR", "steps", "distance", "floors", "elevation",
       "minutesSedentary", "minutesLightlyActive", "minutesFairlyActive",
       "minutesVeryActive", "activityCalories" >>
\* resource_path in enum
InEnum(v, enum) == v.type = "str" /\ InList(v.s, enum)

get_activities_by_date(session, date) ==
    IF ~IsDatetime(date) THEN Raise("ValueError")
    ELSE LET date1 == NormalizeDate(date)
             required_scope == FullRequiredScope
         IN IF ScopeInsufficient(session, required_scope)
            THEN RaiseInsufficientScope(MissingScope(session, required_scope))
            ELSE Dispatch("get",
                     PyReplace(Template("/1/user/-/activities/date/{date}.json"),
                               "{date}", date1),
                     ParamsNone)

get_activities_resource_by_date_range(session, resource_path, base_date, end_date) ==
    IF ~IsDatetime(base_date) THEN Raise("ValueError")
    ELSE IF ~IsDatetime(end_date) THEN Raise("ValueError")
    ELSE IF ~InEnum(resource_path, ActivitiesResourceEnum) THEN Raise("ValueError")
    ELSE LET base_date1 == NormalizeDate(base_date)
             end_date1 == NormalizeDate(end_date)
             required_scope == FullRequiredScope
         IN IF ScopeInsufficient(session, required_scope)
            THEN RaiseInsufficientScope(MissingScope(session, required_scope))
            ELSE Dispatch("get",
                     PyReplace(PyReplace(PyReplace(
                         Template("/1/user/-/activities/{resource-path}/date/{base-date}/{end-date}.json"),
                         "{resource-path}", resource_path),
                         "{base-date}", base_date1),
                         "{end-date}", end_date1),
                     ParamsNone)

get_activities_resource_by_date_period(session, resource_path, date, period) ==
    IF ~IsDatetime(date) THEN Raise("ValueError")
    ELSE IF ~InEnum(resource_path, ActivitiesResourceEnum) THEN Raise("ValueError")
    ELSE LET date1 == NormalizeDate(date)
             required_scope == FullRequiredScope
         IN IF ScopeInsufficient(session, required_scope)
            THEN RaiseInsufficientScope(MissingScope(session, required_scope))
            ELSE Dispatch("get",
                     PyReplace(PyReplace(PyReplace(
                         Template("/1/user/-/activities/{resource-path}/date/{date}/{period}.json"),
                         "{resource-path}", resource_path),
                         "{date}", date1),
                         "{period}", period),
                     ParamsNone)

get_body_goals(session, goal_type) ==
    LET required_scope == FullRequiredScope
    IN IF ScopeInsufficient(session, required_scope)
       THEN RaiseInsufficientScope(MissingScope(session, required_scope))
       ELSE Dispatch("get",
                PyReplace(Template("/1/user/-/body/log/{goal-type}/goal.json"),
                          "{goal-type}", goal_type),
                ParamsNone)

update_weight_goal(session, start_date, start_weight, weight) ==
    LET required_scope == {"profile", "heartrate", "location"}
    IN IF ScopeInsufficient(session, required_scope)
       THEN RaiseInsufficientScope(MissingScope(session, required_scope))
       ELSE LET params0 == ParamsDict({})
                params1 == SetItem(params0, "startDate", start_date)
                params2 == SetItem(params1, "startWeight", start_weight)
                params3 == IF Truthy(weight)
                           THEN SetItem(params2, "weight", weight)
                           ELSE params2
            IN Dispatch("post", Template("/1/user/-/body/log/weight/goal.json"),
                        params3)

get_heart_by_date_range(session, base_date, end_date) ==
    IF ~IsDatetime(end_date) THEN Raise("ValueError")
    ELSE LET end_date1 == NormalizeDate(end_date)
             required_scope == FullRequiredScope
         IN IF ScopeInsufficient(session, required_scope)
            THEN RaiseInsufficientScope(MissingScope(session, required_scope))
            ELSE Dispatch("get",
                     PyReplace(PyReplace(
                         Template("/1/user/-/activities/heart/date/{base-date}/{end-date}.json"),
                         "{base-date}", base_date),
                         "{end-date}", end_date1),
                     ParamsNone)

add_activities_log(session, activity_id, manual_calories, start_time, duration_millis, date, distance, activity_name, distance_unit) ==
    IF ~IsDatetime(date) THEN Raise("ValueError")
    ELSE LET date1 == NormalizeDate(date)
             required_scope == FullRequiredScope
         IN IF ScopeInsufficient(session, required_scope)
            THEN RaiseInsufficientScope(MissingScope(session, required_scope))
            ELSE LET params0 == ParamsDict({})
                     params1 == SetItem(params0, "activityId", activity_id)
                     params2 == IF Truthy(activity_name)
                                THEN SetItem(params1, "activityName",
                                             activity_name)
                                ELSE params1
                     params3 == SetItem(params2, "manualCalories",
                                        manual_calories)
                     params4 == SetItem(params3, "startTime", start_time)
                     params5 == SetItem(params4, "durationMillis",
                                        duration_millis)
                     params6 == SetItem(params5, "date", date1)
                     params7 == SetItem(params6, "distance", distance)
                     params8 == IF Truthy(distance_unit)
                                THEN SetItem(params7, "distanceUnit",
                                             distance_unit)
                                ELSE params7
                 IN Dispatch("post", Template("/1/user/-/activities.json"),
                             params8)

delete_activities_log(session, activity_log_id) ==
    LET required_scope == FullRequiredScope
    IN IF ScopeInsufficient(session, required_scope)
       THEN RaiseInsufficientScope(MissingScope(session, required_scope))
       ELSE Dispatch("delete",
                PyReplace(Template("/1/user/-/activities/{activity-log-id}.json"),
                          "{activity-log-id}", activity_log_id),
                ParamsNone)

\* Mutant: the required parameters are sent only when they are truthy.
add_alarms_SkipsFalsy(session, tracker_id, time, enabled, recurring, week_days) ==
    LET required_scope == FullRequiredScope
    IN IF ScopeInsufficient(session, required_scope)
       THEN RaiseInsufficientScope(MissingScope(session, required_scope))
       ELSE LET params0 == ParamsDict({})
                params1 == IF Truthy(time)
                           THEN SetItem(params0, "time", time) ELSE params0
                params2 == IF Truthy(enabled)
                           THEN SetItem(params1, "enabled", enabled)
                           ELSE params1
                params3 == IF Truthy(recurring)
                           THEN SetItem(params2, "recurring", recurring)
                           ELSE params2
                params4 == IF Truthy(week_days)
                           THEN SetItem(params3, "weekDays", week_days)
                           ELSE params3
            IN Dispatch("post",
                   PyReplace(Template("/1/user/-/devices/tracker/{tracker-id}/alarms.json"),
                             "{tracker-id}", tracker_id),
                   params4)

add_alarms(session, tracker_id, time, enabled, recurring, week_days) ==
    LET required_scope == FullRequiredScope
    IN IF ScopeInsufficient(session, required_scope)
       THEN RaiseInsufficientScope(MissingScope(session, required_scope))
       ELSE LET params0 == ParamsDict({})
                params1 == SetItem(params0, "time", time)
                params2 == SetItem(params1, "enabled", enabled)
                params3 == SetItem(params2, "recurring", recurring)
                params4 == SetItem(params3, "weekDays", week_days)
            IN Dispatch("post",
                   PyReplace(Template("/1/user/-/devices/tracker/{tracker-id}/alarms.json"),
                             "{tracker-id}", tracker_id),
                   params4)

add_foods_log(session, food_id, meal_type_id, unit_id, amount, date, food_name, favorite, brand_name, calories) ==
    IF ~IsDatetime(date) THEN Raise("ValueError")
    ELSE LET date1 == NormalizeDate(date)
             required_scope == FullRequiredScope
         IN IF ScopeInsufficient(session, required_scope)
            THEN RaiseInsufficientScope(MissingScope(session, required_scope))
            ELSE LET params0 == ParamsDict({})
                     params1 == SetItem(params0, "foodId", food_id)
                     params2 == IF Truthy(food_name)
                                THEN SetItem(params1, "foodName", food_name)
                                ELSE params1
                     params3 == SetItem(params2, "mealTypeId", meal_type_id)
                     params4 == SetItem(params3, "unitId", unit_id)
                     params5 == SetItem(params4, "amount", amount)
                     params6 == SetItem(params5, "date", date1)
                     params7 == IF Truthy(favorite)
                                THEN SetItem(params6, "favorite", favorite)
                                ELSE params6
                     params8 == IF Truthy(brand_name)
                                THEN SetItem(params7, "brandName", brand_name)
                                ELSE params7
                     params9 == IF Truthy(calories)
                                THEN SetItem(params8, "calories", calories)
                                ELSE params8
                 IN Dispatch("post", Template("/1/user/-/foods/log.json"),
                             params9)

create_friends_invitations(session, invited_user_email, invited_user_id) ==
    LET required_scope == FullRequiredScope
    IN IF ScopeInsufficient(session, required_scope)
       THEN RaiseInsufficientScope(MissingScope(session, required_scope))
       ELSE LET params0 == ParamsDict({})
                params1 == IF Truthy(invited_user_email)
                           THEN SetItem(params0, "invitedUserEmail",
                                        invited_user_email)
                           ELSE params0
                params2 == IF Truthy(invited_user_id)
                           THEN SetItem(params1, "invitedUserId",
                                        invited_user_id)
                           ELSE params1
            IN Dispatch("post", Template("/1.1/user/-/friends/invitations"),
                        params2)

add_update_foods_goal(session, calories, intensity, personalized) ==
    LET required_scope == FullRequiredScope
    IN IF ScopeInsufficient(session, required_scope)
       THEN RaiseInsufficientScope(MissingScope(session, required_scope))
       ELSE LET params0 == ParamsDict({})
                params1 == SetItem(params0, "calories", calories)
                params2 == IF Truthy(intensity)
                           THEN SetItem(params1, "intensity", intensity)
                           ELSE params1
                params3 == IF Truthy(personalized)
                           THEN SetItem(params2, "personalized", personalized)
                           ELSE params2
            IN Dispatch("post", Template("/1/user/-/foods/log/goal.json"),
                        params3)

get_activities_log_list(session, sort, offset, limit, before_date, after_date) ==
    IF Truthy(before_date) /\ ~IsDatetime(before_date) THEN Raise("ValueError")
    ELSE IF Truthy(after_date) /\ ~IsDatetime(after_date)
         THEN Raise("ValueError")
    ELSE LET before_date1 == NormalizeDate(before_date)
             after_date1 == NormalizeDate(after_date)
             required_scope == FullRequiredScope
         IN IF ScopeInsufficient(session, required_scope)
            THEN RaiseInsufficientScope(MissingScope(session, required_scope))
            ELSE LET params0 == ParamsDict({})
                     params1 == IF Truthy(before_date1)
                                THEN SetItem(params0, "beforeDate",
                                             before_date1)
                                ELSE params0
                     params2 == IF Truthy(after_date1)
                                THEN SetItem(params1, "afterDate", after_date1)
                                ELSE params1
                     params3 == SetItem(params2, "sort", sort)
                     params4 == SetItem(params3, "offset", offset)
                     params5 == SetItem(params4, "limit", limit)
                 IN Dispatch("get", Template("/1/user/-/activities/list.json"), params5)

get_sleep_list(session, sort, offset, limit, before_date, after_date) ==
    IF Truthy(before_date) /\ ~IsDatetime(before_date) THEN Raise("ValueError")
    ELSE IF Truthy(after_date) /\ ~IsDatetime(after_date)
         THEN Raise("ValueError")
    ELSE LET before_date1 == NormalizeDate(before_date)
             after_date1 == NormalizeDate(after_date)
             required_scope == FullRequiredScope
         IN IF ScopeInsufficient(session, required_scope)
            THEN RaiseInsufficientScope(MissingScope(session, required_scope))
            ELSE LET params0 == ParamsDict({})
                     params1 == IF Truthy(before_date1)
                                THEN SetItem(params0, "beforeDate",
                                             before_date1)
                                ELSE params0
                     params2 == IF Truthy(after_date1)
                                THEN SetItem(params1, "afterDate", after_date1)
                                ELSE params1
                     params3 == SetItem(params2, "sort", sort)
                     params4 == SetItem(params3, "offset", offset)
                     params5 == SetItem(params4, "limit", limit)
                 IN Dispatch("get", Template("/1.2/user/-/sleep/list.json"), params5)

\* update_profile(gender=None, birthday=None, ...): of its twenty optional
\* parameters the body reads only birthday, to validate and format it; it
\* builds no parameter mapping and calls _post with the endpoint alone.  The
\* eighteen parameters after birthday are, like gender, never read.
update_profile(session, gender, birthday) ==
    IF Truthy(birthday) /\ ~IsDatetime(birthday) THEN Raise("ValueError")
    ELSE LET birthday1 == NormalizeDate(birthday)
             required_scope == FullRequiredScope
         IN IF ScopeInsufficient(session, required_scope)
            THEN RaiseInsufficientScope(MissingScope(session, required_scope))
            ELSE Dispatch("post", Template("/1/user/-/profile.json"),
                          ParamsNone)

get_profile(session) ==
    LET required_scope == {"location", "profile", "weight"}
    IN IF ScopeInsufficient(session, required_scope)
       THEN RaiseInsufficientScope(MissingScope(session, required_scope))
       ELSE Dispatch("get", Template("/1/user/-/profile.json"), ParamsNone)

(***************************************************************************)
(* Inputs of the endpoint calls.                                           *)
(***************************************************************************)
DateArgs ==
    { PyDatetime(2023, 5, 1), PyDatetime(2024, 12, 31),
      PyStr("2023-05-01"), PyNone }
ResourcePathArgs == { PyStr("steps"), PyStr("activityCalories"), PyStr("bogus") }
PeriodArgs == { PyStr("1d"), PyStr("bogus") }
GoalTypeArgs == { PyStr("weight"), PyStr("fat"), PyStr("bogus") }
WeightArgs == { PyStr("70.5"), PyNone }
\* Arguments of the methods that send a parameter mapping: values that are
\* omitted (None), falsy (0, False, '') and truthy.
LogDateArgs == { PyDatetime(2023, 5, 1), PyStr("2023-05-01") }
ActivityIdArgs == { PyInt(0), PyInt(90013) }
ActivityNameArgs == { PyNone, PyStr("Run") }
DistanceUnitArgs == { PyNone, PyStr("Steps") }
AlarmTimeArgs == { PyStr(""), PyStr("07:15-08:00") }
BoolArgs == { PyBool(FALSE), PyBool(TRUE) }
WeekDaysArgs == { PyStr(""), PyStr("MONDAY") }
FoodNameArgs == { PyStr(""), PyStr("Apple") }
CaloriesArgs == { PyNone, PyInt(0), PyInt(250) }
EmailArgs == { PyNone, PyStr(""), PyStr("friend@example.com") }
UserIdArgs == { PyNone, PyStr("22QRPK") }
LogIdArgs == { PyStr("12345"), PyInt(12345) }
IntensityArgs == { PyNone, PyStr("MEDIUM") }
PersonalizedArgs == { PyNone, PyStr("true") }
GenderArgs == { PyNone, PyStr("MALE") }
OptionalDateArgs == { PyNone, PyStr("2023-05-01"), PyDatetime(2023, 5, 1) }
BirthdayArgs == OptionalDateArgs \cup { PyStr("") }

\* The calls a caller can make: a method name and its positional arguments.
EndpointCalls ==
    {[name |-> "get_activities_by_date", args |-> << d >>] : d \in DateArgs}
    \cup {[name |-> "get_activities_resource_by_date_range",
           args |-> << r, b, e >>] :
             r \in ResourcePathArgs, b \in DateArgs, e \in DateArgs}
    \cup {[name |-> "get_activities_resource_by_date_period",
           args |-> << r, d, p >>] :
             r \in ResourcePathArgs, d \in DateArgs, p \in PeriodArgs}
    \cup {[name |-> "get_body_goals", args |-> << g >>] : g \in GoalTypeArgs}
    \cup {[name |-> "update_weight_goal", args |-> << d, PyStr("80.0"), w >>] :
             d \in DateArgs, w \in WeightArgs}
    \cup {[name |-> "get_heart_by_date_range", args |-> << b, e >>] :
             b \in DateArgs, e \in DateArgs}
    \cup {[name |-> "get_profile", args |-> << >>]}
    \cup {[name |-> "add_activities_log",
           args |-> << id, PyInt(0), PyStr("07:15"), PyInt(1800000), d,
                       PyInt(0), n, u >>] :
             id \in ActivityIdArgs, d \in LogDateArgs,
             n \in ActivityNameArgs, u \in DistanceUnitArgs}
    \cup {[name |-> "delete_activities_log", args |-> << id >>] :
             id \in LogIdArgs}
    \cup {[name |-> "add_alarms",
           args |-> << PyStr("T1"), tm, en, PyBool(FALSE), wd >>] :
             tm \in AlarmTimeArgs, en \in BoolArgs, wd \in WeekDaysArgs}
    \cup {[name |-> "add_foods_log",
           args |-> << PyInt(0), PyInt(1), PyInt(304), PyStr("1.5"), d,
                       n, fav, PyNone, cal >>] :
             d \in LogDateArgs, n \in FoodNameArgs, fav \in BoolArgs,
             cal \in CaloriesArgs}
    \cup {[name |-> "create_friends_invitations", args |-> << e, id >>] :
             e \in EmailArgs, id \in UserIdArgs}
    \cup {[name |-> "add_update_foods_goal",
           args |-> << PyInt(2000), i, p >>] :
             i \in IntensityArgs, p \in PersonalizedArgs}
    \cup {[name |-> n,
           args |-> << PyStr("asc"), PyInt(0), PyInt(20), b, a >>] :
             n \in {"get_activities_log_list", "get_sleep_list"},
             b \in OptionalDateArgs, a \in OptionalDateArgs}
    \cup {[name |-> "update_profile", args |-> << g, b >>] :
             g \in GenderArgs, b \in BirthdayArgs}

\* The method call  client.<name>(*args)
Endpoint(session, name, a) ==
    CASE name = "get_activities_by_date" ->
           get_activities_by_date(session, a[1])
      [] name = "get_activities_resource_by_date_range" ->
           get_activities_resource_by_date_range(session, a[1], a[2], a[3])
      [] name = "get_activities_resource_by_date_period" ->
           get_activities_resource_by_date_period(session, a[1], a[2], a[3])
      [] name = "get_body_goals" ->
           get_body_goals(session, a[1])
      [] name = "update_weight_goal" ->
           update_weight_goal(session, a[1], a[2], a[3])
      [] name = "get_heart_by_date_range" ->
           get_heart_by_date_range(session, a[1], a[2])
      [] name = "get_profile" ->
           get_profile(session)
      [] name = "add_activities_log" ->
           add_activities_log(session, a[1], a[2], a[3], a[4], a[5], a[6],
                              a[7], a[8])
      [] name = "delete_activities_log" ->
           delete_activities_log(session, a[1])
      [] name = "add_alarms" ->
           add_alarms(session, a[1], a[2], a[3], a[4], a[5])
      [] name = "add_foods_log" ->
           add_foods_log(session, a[1], a[2], a[3], a[4], a[5], a[6], a[7],
                         a[8], a[9])
      [] name = "create_friends_invitations" ->
           create_friends_invitations(session, a[1], a[2])
      [] name = "add_update_foods_goal" ->
           add_update_foods_goal(session, a[1], a[2], a[3])
      [] name = "get_activities_log_list" ->
           get_activities_log_list(session, a[1], a[2], a[3], a[4], a[5])
      [] name = "get_sleep_list" ->
           get_sleep_list(session, a[1], a[2], a[3], a[4], a[5])
      [] name = "update_profile" ->
           update_profile(session, a[1], a[2])

(***************************************************************************)
(* The dispatcher.                                                         *)
(***************************************************************************)
\* An HTTP response: its status and its Retry-After header ("" when the
\* header is absent).  The vendor sends Retry-After with every 429.  A 204
\* (No Content) and a 304 (Not Modified) response carry no body.
Response(status, retry_after) == [status |-> status, retry_after |-> retry_after]
NoResponse == Response(0, "")
Responses ==
    { Response(200, ""), Response(204, ""), Response(304, ""),
      Response(401, ""), Response(500, ""),
      Response(429, "60"), Response(429, "3600") }
\* response.ok
Ok(response) == response.status < 400
\* The response has a body for response.json() to parse.
HasBody(response) == response.status \notin {204, 304}

\* How a call ended: nothing yet, a returned value, or a raised exception.
Result(kind, exc, missing, retry_after, what, resp) ==
    [kind |-> kind, exc |-> exc, missing |-> missing,
     retry_after |-> retry_after, what |-> what, resp |-> resp]
NoResult == Result("none", "", {}, "", "", NoResponse)
Raised(exc) == Result("raise", exc, {}, "", "", NoResponse)

\* Line 168, response.json(): the parsed body; parsing an empty body raises.
Json(response) ==
    IF HasBody(response) THEN Result("return", "", {}, "", "json", response)
    ELSE Raised("JSONDecodeError")

\* Mutant: a 429 is treated like any other failure status.
MapResponse_No429(response, full_response) ==
    IF full_response THEN Result("return", "", {}, "", "response", response)
    ELSE IF Ok(response) THEN Json(response)
    ELSE Result("return", "", {}, "", "None", NoResponse)

\* Mutant: the status is looked at before the raw-response flag.
MapResponse_StatusFirst(response, full_response) ==
    IF response.status = 429
    THEN Result("raise", "RateLimitException", {}, response.retry_after,
                "", NoResponse)
    ELSE IF full_response
         THEN Result("return", "", {}, "", "response", response)
    ELSE IF Ok(response) THEN Json(response)
    ELSE Result("return", "", {}, "", "None", NoResponse)

\* Mutant: a failure status other than 429 raises instead of returning.
MapResponse_RaiseForStatus(response, full_response) ==
    IF full_response THEN Result("return", "", {}, "", "response", response)
    ELSE IF Ok(response) THEN Json(response)
    ELSE IF response.status = 429
         THEN Result("raise", "RateLimitException", {}, response.retry_after,
                     "", NoResponse)
    ELSE Raised("HTTPError")

\* Mutant: a body that cannot be parsed surfaces as a plain ValueError.
MapResponse_JsonValueError(response, full_response) ==
    IF full_response THEN Result("return", "", {}, "", "response", response)
    ELSE IF Ok(response)
         THEN IF HasBody(response)
              THEN Result("return", "", {}, "", "json", response)
              ELSE Raised("ValueError")
    ELSE IF response.status = 429
         THEN Result("raise", "RateLimitException", {}, response.retry_after,
                     "", NoResponse)
    ELSE Result("return", "", {}, "", "None", NoResponse)

\* Lines 165-171 of _request: what the dispatcher makes of a response.
MapResponse(response, full_response) ==
    IF full_response THEN Result("return", "", {}, "", "response", response)
    ELSE IF Ok(response) THEN Json(response)
    ELSE IF response.status = 429
         THEN Result("raise", "RateLimitException", {}, response.retry_after,
                     "", NoResponse)
    ELSE Result("return", "", {}, "", "None", NoResponse)

\* params = params or {}
ParamsOrEmpty(params) ==
    IF ~params.isNone /\ params.items # {} THEN params ELSE ParamsDict({})

\* The state of one thread's endpoint call.
\*   sent       the session.request calls made, in order
\*   outcomes   how each of them ended: an exception name, or "response"
\*   response   the last response received (NoResponse before any)
\*   refreshes  calls made to the token endpoint
\*   refreshed  how many of them returned a token
\*   presented  the tokens whose refresh token those calls presented
\*   inflight   the vendor's answer to a refresh that has not been read yet
\*   cbArgs     the tokens handed to the session's token_updater
\*   refreshReturn  what refresh_token returned (NoToken before it returns)
Idle ==
    [pc |-> "idle", name |-> "", args |-> << >>, full |-> FALSE,
     scope |-> << >>, tokenBefore |-> NoToken,
     verb |-> "", endpoint |-> "", url |-> "", params |-> ParamsNone,
     sent |-> << >>, outcomes |-> << >>, response |-> NoResponse,
     refreshes |-> 0, refreshed |-> 0,
     presented |-> << >>, inflight |-> NoToken, cbArgs |-> << >>,
     refreshReturn |-> NoToken, result |-> NoResult]

\* A caller invokes an endpoint method.  The method body runs up to the
\* dispatcher's first network call (lines 158-159 of _request included).
CallOf(t, calls) ==
    /\ th[t].pc = "idle"
    /\ client.exists
    /\ \E c \in calls, full_response \in BOOLEAN :
         LET o == Endpoint(client.session, c.name, c.args)
             started == [Idle EXCEPT !.name = c.name, !.args = c.args,
                                     !.full = full_response,
                                     !.scope = client.session.scope,
                                     !.tokenBefore = client.session.token]
         IN th' = [th EXCEPT ![t] =
                IF o.kind = "raise"
                THEN [started EXCEPT !.pc = "done",
                        !.result = Result("raise", o.exc, o.missing, "", "",
                                          NoResponse)]
                ELSE [started EXCEPT !.pc = "request",
                        !.verb = o.verb, !.endpoint = o.endpoint,
                        !.url = "https://api.fitbit.com" \o o.endpoint,
                        !.params = ParamsOrEmpty(o.params)]]
    /\ UNCHANGED << client, ctor, issued, expired, consumed >>

Call(t) == CallOf(t, EndpointCalls)

\* A caller invokes client.refresh_token() itself (lines 148-155).
CallRefreshToken(t) ==
    /\ th[t].pc = "idle"
    /\ client.exists
    /\ th' = [th EXCEPT ![t] =
           [Idle EXCEPT !.name = "refresh_token",
                        !.scope = client.session.scope,
                        !.tokenBefore = client.session.token,
                        !.pc = "refresh"]]
    /\ UNCHANGED << client, ctor, issued, expired, consumed >>

\* self.session.request(method, url, params=params) as this thread makes it
\* now: the request is stamped with the session's current token.
Sending(t) ==
    [method |-> th[t].verb, url |-> th[t].url, params |-> th[t].params,
     token |-> client.session.token]

\* Mutant: the handler retries without refreshing the token.
ExceptTokenExpired_NoRefresh(me) == [me EXCEPT !.pc = "retry"]

\* Lines 162-163: TokenExpiredError is caught and refresh_token is called.
ExceptTokenExpired(me) == [me EXCEPT !.pc = "refresh"]

\* An exception that is not caught leaves _request and the endpoint method.
Propagate(me, exc) == [me EXCEPT !.pc = "done", !.result = Raised(exc)]

\* Mutant: a 401 answer is sent again, up to three attempts.
Respond_RetryOn401(me, response) ==
    IF response.status = 401 /\ Len(me.sent) < 3
    THEN [me EXCEPT !.outcomes = Append(@, "response"),
                    !.response = response, !.pc = "retry"]
    ELSE [me EXCEPT !.outcomes = Append(@, "response"),
                    !.response = response, !.pc = "done",
                    !.result = MapResponse(response, me.full)]

\* Mutant: a 401 answer is taken as an expired token and starts a refresh.
Respond_RefreshOn401(me, response) ==
    IF response.status = 401 /\ me.refreshes = 0
    THEN [me EXCEPT !.outcomes = Append(@, "response"),
                    !.response = response, !.pc = "refresh"]
    ELSE [me EXCEPT !.outcomes = Append(@, "response"),
                    !.response = response, !.pc = "done",
                    !.result = MapResponse(response, me.full)]

\* Lines 165-171: the response is mapped and _request returns or raises.
Respond(me, response) ==
    [me EXCEPT !.outcomes = Append(@, "response"), !.response = response,
               !.pc = "done", !.result = MapResponse(response, me.full)]

\* Line 161: the first attempt.  The session raises TokenExpiredError when
\* its token is past expiry (handled at line 162); otherwise the transport
\* fails, or the vendor answers.
Request(t) ==
    /\ th[t].pc = "request"
    /\ LET me == [th[t] EXCEPT !.sent = Append(@, Sending(t))]
       IN IF client.session.token \in expired
          THEN th' = [th EXCEPT ![t] = ExceptTokenExpired(
                   [me EXCEPT !.outcomes = Append(@, "TokenExpiredError")])]
          ELSE \/ th' = [th EXCEPT ![t] = Propagate(
                      [me EXCEPT !.outcomes = Append(@, "ConnectionError")],
                      "ConnectionError")]
               \/ \E response \in Responses :
                    th' = [th EXCEPT ![t] = Respond(me, response)]
    /\ UNCHANGED << client, ctor, issued, expired, consumed >>

\* refresh_token, line 149: the call to the token endpoint, presenting the
\* refresh token of the session's current token.  The vendor returns a new
\* token or rejects the refresh.
RefreshSend(t) ==
    /\ th[t].pc = "refresh"
    /\ \E vendorAccepts \in BOOLEAN :
         /\ vendorAccepts => issued < MaxTokens
         /\ th' = [th EXCEPT ![t] =
                [@ EXCEPT !.refreshes = @ + 1,
                          !.presented = Append(@, client.session.token),
                          !.inflight = IF vendorAccepts THEN Token(issued + 1)
                                       ELSE NoToken,
                          !.pc = "refreshing"]]
         /\ issued' = IF vendorAccepts THEN issued + 1 ELSE issued
    /\ consumed' = consumed \cup {client.session.token}
    /\ UNCHANGED << client, ctor, expired >>

\* Mutant: the session does not keep the token the vendor returned.
StoreToken_Dropped(c, token) == c

\* Mutant: storing the new token resets the session's scope to the default.
StoreToken_ResetsScope(c, token) ==
    [c EXCEPT !.session.token = token, !.session.scope = ALL_SCOPES]

\* Mutant: a token is stored only while the session's token is expired, so
\* a refresh that finishes after another one does not overwrite its token.
StoreToken_UnlessFresh(c, token) ==
    IF c.session.token \in expired
    THEN [c EXCEPT !.session.token = token]
    ELSE c

\* Line 149: session.refresh_token stores the token it fetched in the
\* session; nothing else of the session or the client changes.
StoreToken(c, token) == [c EXCEPT !.session.token = token]

\* Mutant: the rejection is swallowed and the dispatcher goes on to retry.
RefreshRejected_Swallowed(me) == [me EXCEPT !.pc = "retry"]

\* Line 149 raises: nothing in refresh_token or in the handler at lines
\* 162-163 catches it, so it leaves refresh_token and _request.
RefreshRejected(me) == Propagate(me, "InvalidGrantError")

\* Lines 153-154: the token_updater, if any, is called with the new token.
UpdaterCalls(session, token) ==
    IF session.token_updater # NoCallback THEN << token >> ELSE << >>

\* refresh_token, lines 149-155: the answer arrives.  The session stores the
\* new token, the token_updater, if any, is called with it, and the token is
\* returned: to the caller of refresh_token, or to the handler at line 163,
\* which goes on to the retry.  A rejected refresh raises.
RefreshRecv(t) ==
    /\ th[t].pc = "refreshing"
    /\ IF th[t].inflight = NoToken
       THEN /\ th' = [th EXCEPT ![t] = RefreshRejected(@)]
            /\ UNCHANGED client
       ELSE LET token == th[t].inflight
                direct == th[t].name = "refresh_token"
            IN /\ client' = StoreToken(client, token)
               /\ th' = [th EXCEPT ![t] =
                      [@ EXCEPT !.inflight = NoToken,
                                !.refreshed = @ + 1,
                                !.cbArgs = @ \o UpdaterCalls(client.session,
                                                             token),
                                !.refreshReturn = token,
                                !.pc = IF direct THEN "done" ELSE "retry",
                                !.result =
                                    IF direct
                                    THEN Result("return", "", {}, "", "token",
                                                NoResponse)
                                    ELSE @]]
    /\ UNCHANGED << ctor, issued, expired, consumed >>

\* Line 164: the request is sent again, outside the try block, so whatever
\* it raises leaves _request.
\* Mutant: the retry sits inside the handler's loop, so a second expiry
\* signal starts another refresh.
RetryRaised_Again(me, exc) ==
    IF exc = "TokenExpiredError" THEN [me EXCEPT !.pc = "refresh"]
    ELSE [me EXCEPT !.pc = "done", !.result = Raised(exc)]

RetryRaised(me, exc) == Propagate(me, exc)

\* Mutant: the retry carries the token the call started with.
Resending_StaleToken(t) == [Sending(t) EXCEPT !.token = th[t].tokenBefore]

\* Line 164: the same call expression as line 161, evaluated again: same
\* method, url and params, and the token the session holds now.
Resending(t) == Sending(t)

Retry(t) ==
    /\ th[t].pc = "retry"
    /\ LET me == [th[t] EXCEPT !.sent = Append(@, Resending(t))]
       IN IF client.session.token \in expired
          THEN th' = [th EXCEPT ![t] = RetryRaised(
                   [me EXCEPT !.outcomes = Append(@, "TokenExpiredError")],
                   "TokenExpiredError")]
          ELSE \/ th' = [th EXCEPT ![t] = RetryRaised(
                      [me EXCEPT !.outcomes = Append(@, "ConnectionError")],
                      "ConnectionError")]
               \/ \E response \in Responses :
                    th' = [th EXCEPT ![t] = Respond(me, response)]
    /\ UNCHANGED << client, ctor, issued, expired, consumed >>

\* The endpoint method has returned or raised; the caller goes on.
Return(t) ==
    /\ th[t].pc = "done"
    /\ th' = [th EXCEPT ![t] = Idle]
    /\ UNCHANGED << client, ctor, issued, expired, consumed >>

\* Time passes: the session's current token reaches its expiry.
Expire ==
    /\ client.exists
    /\ client.session.token \notin expired
    /\ expired' = expired \cup {client.session.token}
    /\ UNCHANGED << client, ctor, issued, consumed, th >>

(***************************************************************************)
(* The specification: one caller thread.                                   *)
(***************************************************************************)
Init ==
    /\ client = NoClient
    /\ ctor = NoCtor
    /\ issued = 0
    /\ expired = {}
    /\ consumed = {}
    /\ th = [t \in AllThreads |-> Idle]

Next ==
    \/ CreateUsingToken
    \/ OAuth2StepOne
    \/ OAuth2StepTwo
    \/ LegacyOAuth2StepTwo
    \/ Expire
    \/ \E t \in MainThreads : Call(t)
    \/ \E t \in MainThreads : CallRefreshToken(t)
    \/ \E t \in MainThreads : Request(t)
    \/ \E t \in MainThreads : RefreshSend(t)
    \/ \E t \in MainThreads : RefreshRecv(t)
    \/ \E t \in MainThreads : Retry(t)
    \/ \E t \in MainThreads : Return(t)

Spec == Init /\ [][Next]_vars

(***************************************************************************)
(* The specification with two caller threads sharing one client.  The     *)
(* client has been constructed from a stored token; each thread calls      *)
(* get_profile, and the steps of the two dispatches interleave freely:     *)
(* nothing in _request or refresh_token takes a lock.                      *)
(***************************************************************************)
ConcArgs ==
    [token |-> "123456789", client_id |-> "ABC123",
     client_secret |-> "secretthings",
     callback_uri |-> "www.example.com/callback", redirect_uri |-> "",
     scope |-> ScopeNone, new_token_callback |-> "save_token"]
ConcCalls == {[name |-> "get_profile", args |-> << >>]}

InitConc ==
    /\ client = create_using_token(ConcArgs).client
    /\ ctor = CtorRecord("create_using_token", ConcArgs, 0, << >>, "client",
                         "", NoToken, create_using_token(ConcArgs).client)
    /\ issued = 0
    /\ expired = {}
    /\ consumed = {}
    /\ th = [t \in AllThreads |-> Idle]

ConcCall(t) == CallOf(t, ConcCalls)

NextConc ==
    \/ Expire
    \/ \E t \in AllThreads : ConcCall(t)
    \/ \E t \in AllThreads : Request(t)
    \/ \E t \in AllThreads : RefreshSend(t)
    \/ \E t \in AllThreads : RefreshRecv(t)
    \/ \E t \in AllThreads : Retry(t)
    \/ \E t \in AllThreads : Return(t)

SpecConc == InitConc /\ [][NextConc]_vars

(***************************************************************************)
(* Properties.                                                             *)
(***************************************************************************)
\* The endpoint calls in progress or just finished, and the direct calls of
\* refresh_token.
Direct == {t \in AllThreads : th[t].name = "refresh_token"}
Active == {t \in AllThreads \ Direct : th[t].pc # "idle"}
Finished == {t \in AllThreads \ Direct : th[t].pc = "done"}
\* The first attempt of the dispatch signalled token expiry.
FirstExpired(t) ==
    Len(th[t].outcomes) >= 1 /\ th[t].outcomes[1] = "TokenExpiredError"
Range(seq) == {seq[i] : i \in 1..Len(seq)}

\* The required_scope set each endpoint method declares, read off the
\* source: get_profile (line 3759) and update_weight_goal (line 1549) have
\* their own, every other method modelled here requires the full set.
RequiredScopeOf(name) ==
    CASE name = "get_profile" -> {"location", "profile", "weight"}
      [] name = "update_weight_goal" -> {"profile", "heartrate", "location"}
      [] OTHER -> {"activity", "heartrate", "location", "nutrition",
                   "profile", "settings", "sleep", "social", "weight"}

\* The arguments a method validates before its scope check are valid.
ValidatedArgsOk(name, a) ==
    CASE name = "get_activities_by_date" -> a[1].type = "datetime"
      [] name = "get_activities_resource_by_date_range" ->
           /\ a[2].type = "datetime" /\ a[3].type = "datetime"
           /\ a[1] \in {PyStr("steps"), PyStr("activityCalories")}
      [] name = "get_activities_resource_by_date_period" ->
           /\ a[2].type = "datetime"
           /\ a[1] \in {PyStr("steps"), PyStr("activityCalories")}
      [] name = "get_heart_by_date_range" -> a[2].type = "datetime"
      [] name = "add_activities_log" -> a[5].type = "datetime"
      [] name = "add_foods_log" -> a[5].type = "datetime"
      [] name \in {"get_activities_log_list", "get_sleep_list"} ->
           /\ a[4].type = "datetime" \/ a[4] \in {PyNone, PyStr("")}
           /\ a[5].type = "datetime" \/ a[5] \in {PyNone, PyStr("")}
      [] name = "update_profile" ->
           a[2].type = "datetime" \/ a[2] \in {PyNone, PyStr("")}
      [] OTHER -> TRUE

\* The scopes granted to the session do not cover the call's required scopes.
LacksScope(t) == ~(RequiredScopeOf(th[t].name) \subseteq Range(th[t].scope))

\* The call made no network call and invoked no callback.
NoNetwork(t) ==
    /\ th[t].sent = << >>
    /\ th[t].refreshes = 0
    /\ th[t].cbArgs = << >>

\* C1 as stated: a dispatch whose first attempt signals token expiry ends
\* with exactly one refresh call and exactly two request attempts.
C1_AsStated ==
    \A t \in Finished :
        FirstExpired(t) => th[t].refreshes = 1 /\ Len(th[t].sent) = 2

\* C1, amended: a dispatch whose first attempt signals token expiry makes
\* exactly one refresh call; when that refresh returns a token the request
\* is sent again exactly once (two attempts in all), and when the refresh
\* is rejected the request is not sent again (one attempt) and the
\* rejection is what the caller gets.
C1_RefreshOnceThenRetryOnce ==
    \A t \in Finished :
        FirstExpired(t) =>
            /\ th[t].refreshes = 1
            /\ th[t].refreshed = 1 => Len(th[t].sent) = 2
            /\ th[t].refreshed = 0 =>
                   /\ Len(th[t].sent) = 1
                   /\ th[t].result = Raised("InvalidGrantError")
            /\ th[t].refreshed \in {0, 1}

C1_Witness ==
    \E t \in Finished :
        /\ FirstExpired(t)
        /\ th[t].refreshes = 1
        /\ th[t].refreshed = 1
        /\ Len(th[t].sent) = 2

\* C2: when the retry that follows a refresh fails too, a second
\* token-expired signal included, that failure is what the caller gets, and
\* no dispatch ever makes a third attempt or a second refresh.
C2_RetryFailurePropagates ==
    \A t \in AllThreads :
        /\ Len(th[t].sent) <= 2
        /\ th[t].refreshes <= 1
        /\ (Len(th[t].outcomes) = 2 /\ th[t].outcomes[2] # "response") =>
               /\ th[t].pc = "done"
               /\ th[t].result = Raised(th[t].outcomes[2])
               /\ Len(th[t].sent) = 2
               /\ th[t].refreshes = 1

C2_Witness ==
    \E t \in Finished :
        /\ th[t].outcomes = << "TokenExpiredError", "TokenExpiredError" >>
        /\ th[t].result = Raised("TokenExpiredError")

\* C3 as stated: every call whose required scopes are not all granted
\* raises InsufficientScope and makes no network call.
C3_AsStated ==
    \A t \in Active :
        LacksScope(t) =>
            /\ th[t].result.exc = "InsufficientScope"
            /\ NoNetwork(t)

\* C3, amended: a call whose required scopes are not all granted makes no
\* network call, no refresh and no callback invocation; it raises
\* InsufficientScope, unless one of the arguments the method validates
\* before its scope check is invalid, in which case it raises ValueError.
C3_LacksScopeNoNetwork ==
    \A t \in Active :
        LacksScope(t) =>
            /\ th[t].pc = "done"
            /\ NoNetwork(t)
            /\ th[t].result.kind = "raise"
            /\ ValidatedArgsOk(th[t].name, th[t].args) =>
                   th[t].result.exc = "InsufficientScope"
            /\ ~ValidatedArgsOk(th[t].name, th[t].args) =>
                   th[t].result.exc = "ValueError"

C3_Witness ==
    \E t \in Finished :
        /\ LacksScope(t)
        /\ th[t].name = "get_profile"
        /\ InList("profile", th[t].scope)
        /\ th[t].result.exc = "InsufficientScope"

DateParams(name) ==
    CASE name = "get_activities_by_date" -> {1}
      [] name = "get_activities_resource_by_date_range" -> {2, 3}
      [] name = "get_activities_resource_by_date_period" -> {2}
      [] name = "update_weight_goal" -> {1}
      [] name = "get_heart_by_date_range" -> {1, 2}
      [] OTHER -> {}

\* The YYYY-MM-DD text of the datetimes the callers pass, written out.
ExpectedDate(v) ==
    CASE v = PyDatetime(2023, 5, 1) -> "2023-05-01"
      [] v = PyDatetime(2024, 12, 31) -> "2024-12-31"
      [] OTHER -> "?"

\* The path a call with valid arguments is documented to request.
ExpectedEndpoint(name, a) ==
    CASE name = "get_activities_by_date" ->
           "/1/user/-/activities/date/" \o ExpectedDate(a[1]) \o ".json"
      [] name = "get_activities_resource_by_date_range" ->
           "/1/user/-/activities/" \o a[1].s \o "/date/"
               \o ExpectedDate(a[2]) \o "/" \o ExpectedDate(a[3]) \o ".json"
      [] name = "get_activities_resource_by_date_period" ->
           "/1/user/-/activities/" \o a[1].s \o "/date/"
               \o ExpectedDate(a[2]) \o "/" \o a[3].s \o ".json"
      [] name = "get_body_goals" ->
           "/1/user/-/body/log/" \o a[1].s \o "/goal.json"
      [] name = "update_weight_goal" -> "/1/user/-/body/log/weight/goal.json"
      [] name = "get_heart_by_date_range" ->
           "/1/user/-/activities/heart/date/"
               \o ExpectedDate(a[1]) \o "/" \o ExpectedDate(a[2]) \o ".json"
      [] name = "get_profile" -> "/1/user/-/profile.json"

\* The call reached the dispatcher.
Dispatched(t) == th[t].verb # ""

\* C5 as stated: for every parameter documented as a datetime, a call that
\* passes something else raises ValueError, and a call that passes
\* datetimes (its other arguments valid, its scopes granted) requests the
\* path, or sends the parameter, holding exactly the YYYY-MM-DD text.
C5_AsStated ==
    \A t \in Active :
        LET a == th[t].args
            dates == DateParams(th[t].name)
        IN /\ (\E i \in dates : a[i].type # "datetime") =>
                  /\ th[t].pc = "done"
                  /\ th[t].result.exc = "ValueError"
           /\ ( /\ dates # {}
                /\ \A i \in dates : a[i].type = "datetime"
                /\ ValidatedArgsOk(th[t].name, a)
                /\ ~LacksScope(t) ) =>
                  /\ Dispatched(t)
                  /\ th[t].endpoint = ExpectedEndpoint(th[t].name, a)
                  /\ th[t].name = "update_weight_goal" =>
                         << "startDate", PyStr(ExpectedDate(a[1])) >>
                             \in th[t].params.items

\* The enumerated path parameters: position and documented values.
ActivitiesPeriods == {"1d", "7d", "30d", "1w", "1m", "3m", "6m", "1y", "max"}
EnumParams(name) ==
    CASE name = "get_activities_resource_by_date_range" ->
           { [pos |-> 1, allowed |-> Range(ActivitiesResourceEnum)] }
      [] name = "get_activities_resource_by_date_period" ->
           { [pos |-> 1, allowed |-> Range(ActivitiesResourceEnum)],
             [pos |-> 3, allowed |-> ActivitiesPeriods] }
      [] name = "get_body_goals" ->
           { [pos |-> 1, allowed |-> {"weight", "fat"}] }
      [] OTHER -> {}

\* C6 as stated: for every path parameter whose documentation lists its
\* permitted values, a value outside the list raises ValueError, and a call
\* whose enumerated values are all listed (its dates valid, its scopes
\* granted) is accepted with the values substituted into the path.
C6_AsStated ==
    \A t \in Active :
        LET a == th[t].args
            enums == EnumParams(th[t].name)
        IN /\ (\E e \in enums : a[e.pos].s \notin e.allowed) =>
                  /\ th[t].pc = "done"
                  /\ th[t].result.exc = "ValueError"
           /\ ( /\ enums # {}
                /\ \A e \in enums : a[e.pos].s \in e.allowed
                /\ \A i \in DateParams(th[t].name) : a[i].type = "datetime"
                /\ ~LacksScope(t) ) =>
                  /\ Dispatched(t)
                  /\ th[t].endpoint = ExpectedEndpoint(th[t].name, a)

\* C7: the InsufficientScope error names exactly the required scopes that
\* are not granted: the required set minus the session's scopes.
C7_MissingIsDifference ==
    \A t \in Active :
        th[t].result.exc = "InsufficientScope" =>
            /\ th[t].result.missing =
                   RequiredScopeOf(th[t].name) \ Range(th[t].scope)
            /\ \A scope \in th[t].result.missing :
                   /\ scope \in RequiredScopeOf(th[t].name)
                   /\ ~InList(scope, th[t].scope)
            /\ th[t].result.missing # {}

C7_Witness ==
    \E t \in Finished :
        /\ th[t].result.exc = "InsufficientScope"
        /\ th[t].result.missing = {"weight"}
        /\ Cardinality(RequiredScopeOf(th[t].name)) > 1

\* Some character of s is an opening brace: a placeholder was left in.
HasPlaceholder(s) == \E i \in 1..Len(s) : SubSeq(s, i, i) = "{"

\* The session was granted every scope.
AllGranted(t) ==
    \A scope \in Range(ALL_SCOPES) : InList(scope, th[t].scope)

\* C8: with all scopes granted, get_activities_by_date(d) for a datetime d
\* reaches the dispatcher once, as a GET for
\* /1/user/-/activities/date/<d as YYYY-MM-DD>.json, with no placeholder
\* left in the path (2023-05-01 gives the literal path of the spec), and
\* every attempt of that dispatch is a GET for that path on the API host.
C8_ActivitiesByDatePath ==
    \A t \in Active :
        ( /\ th[t].name = "get_activities_by_date"
          /\ th[t].args[1].type = "datetime"
          /\ AllGranted(t) ) =>
            /\ Dispatched(t)
            /\ th[t].verb = "get"
            /\ th[t].endpoint =
                   "/1/user/-/activities/date/"
                       \o ExpectedDate(th[t].args[1]) \o ".json"
            /\ th[t].args[1] = PyDatetime(2023, 5, 1) =>
                   th[t].endpoint = "/1/user/-/activities/date/2023-05-01.json"
            /\ ~HasPlaceholder(th[t].endpoint)
            /\ th[t].params = ParamsDict({})
            /\ \A i \in 1..Len(th[t].sent) :
                   /\ th[t].sent[i].method = "get"
                   /\ th[t].sent[i].url =
                          "https://api.fitbit.com" \o th[t].endpoint

C8_Witness ==
    \E t \in Finished :
        /\ th[t].name = "get_activities_by_date"
        /\ th[t].args = << PyDatetime(2023, 5, 1) >>
        /\ AllGranted(t)
        /\ Len(th[t].sent) = 1
        /\ th[t].sent[1].url =
               "https://api.fitbit.com/1/user/-/activities/date/2023-05-01.json"
        /\ th[t].result.what = "json"

\* C9: OAuth2_step_two that is given a persistence callback and completes
\* has invoked the callback exactly once, with the token the exchange
\* returned as its only argument, after one call to the token endpoint; the
\* client it returns has a session with the given client_id, the
\* callback_uri as redirect_uri, the callback as token_updater and the
\* vendor's token as its stored token.
C9_StepTwoCallbackOnce ==
    ( /\ ctor.op = "OAuth2_step_two"
      /\ ctor.result = "client"
      /\ ctor.args.new_token_callback # NoCallback ) =>
        /\ ctor.cbArgs = << ctor.vendorToken >>
        /\ ctor.vendorToken # NoToken
        /\ ctor.fetches = 1
        /\ ctor.returned.exists
        /\ ctor.returned.session.client_id = ctor.args.client_id
        /\ ctor.returned.session.redirect_uri = ctor.args.callback_uri
        /\ ctor.returned.session.token_updater = ctor.args.new_token_callback
        /\ ctor.returned.session.token = ctor.vendorToken

C9_Witness ==
    /\ ctor.op = "OAuth2_step_two"
    /\ ctor.result = "client"
    /\ ctor.args.new_token_callback = "save_token"
    /\ ctor.cbArgs = << Token(1) >>
    /\ client.session.token = Token(1)

\* C10 as stated: create_using_token called with a token, a client_id and
\* a callback_uri returns a client whose session holds that client_id,
\* that callback_uri as redirect_uri and that token, and makes no network
\* call.
C10_AsStated ==
    ctor.op = "create_using_token" =>
        /\ ctor.result = "client"
        /\ ctor.returned.exists
        /\ ctor.returned.session.client_id = ctor.args.client_id
        /\ ctor.returned.session.redirect_uri = ctor.args.callback_uri
        /\ ctor.returned.session.token = ctor.args.token
        /\ ctor.fetches = 0
        /\ ctor.cbArgs = << >>
        /\ ctor.vendorToken = NoToken


\* C11: a direct call of refresh_token makes exactly one call to the token
\* endpoint and sends no other request; when the vendor returns a token,
\* the session's stored token is that token, it is the value returned, the
\* token_updater, if one was supplied, has been called exactly once with
\* it, and without a token_updater nothing is called and the call still
\* returns the token.
C11_RefreshTokenOnce ==
    \A t \in Direct :
        /\ th[t].refreshes <= 1
        /\ th[t].sent = << >>
        /\ th[t].pc \in {"refreshing", "done"} => th[t].refreshes = 1
        /\ (th[t].pc = "done" /\ th[t].refreshed = 1) =>
               /\ th[t].result.kind = "return"
               /\ th[t].refreshReturn = Token(issued)
               /\ th[t].refreshReturn # th[t].tokenBefore
               /\ client.session.token = th[t].refreshReturn
               /\ ctor.args.new_token_callback # NoCallback =>
                      th[t].cbArgs = << th[t].refreshReturn >>
               /\ ctor.args.new_token_callback = NoCallback =>
                      th[t].cbArgs = << >>

C11_Witness ==
    \E t \in Direct :
        /\ th[t].pc = "done"
        /\ th[t].refreshed = 1
        /\ th[t].refreshReturn = Token(1)
        /\ client.session.token = Token(1)
        /\ th[t].tokenBefore = "123456789"
        /\ th[t].cbArgs = << Token(1) >>

\* C12: when the refresh started inside a dispatch is rejected, the
\* dispatch ends there: one refresh call, the request not sent again, the
\* token_updater not called, the session's token unchanged, and the
\* rejection raised to the caller of the endpoint method.
C12_RejectedRefreshPropagates ==
    \A t \in Active :
        (th[t].refreshes >= 1 /\ th[t].refreshed = 0
            /\ th[t].pc # "refreshing") =>
            /\ th[t].pc = "done"
            /\ th[t].refreshes = 1
            /\ Len(th[t].sent) = 1
            /\ th[t].cbArgs = << >>
            /\ th[t].result = Raised("InvalidGrantError")
            /\ client.session.token = th[t].tokenBefore

C12_Witness ==
    \E t \in Finished :
        /\ th[t].name = "get_profile"
        /\ th[t].outcomes = << "TokenExpiredError" >>
        /\ th[t].refreshes = 1
        /\ th[t].refreshed = 0
        /\ th[t].result = Raised("InvalidGrantError")
        /\ ctor.args.new_token_callback = "save_token"

\* C13: when the vendor rejects the exchange, OAuth2_step_two raises: no
\* client is returned, the callback is not called, and the token endpoint
\* was called once only.
C13_RejectedExchangePropagates ==
    (ctor.op = "OAuth2_step_two" /\ ctor.vendorToken = NoToken) =>
        /\ ctor.result = "raise"
        /\ ctor.exc = "InvalidGrantError"
        /\ ~ctor.returned.exists
        /\ ~client.exists
        /\ ctor.cbArgs = << >>
        /\ ctor.fetches = 1

C13_Witness ==
    /\ ctor.op = "OAuth2_step_two"
    /\ ctor.vendorToken = NoToken
    /\ ctor.args.new_token_callback = "save_token"
    /\ ctor.result = "raise"
    /\ ~client.exists

\* C14: an endpoint call sends at most two requests; it sends a second one
\* only after its first attempt signalled token expiry and the refresh
\* returned a token, and a call whose first attempt did not signal expiry
\* sends one request at most and refreshes nothing.
C14_AtMostTwoRoundTrips ==
    \A t \in Active :
        /\ Len(th[t].sent) <= 2
        /\ Len(th[t].outcomes) <= Len(th[t].sent)
        /\ Len(th[t].sent) = 2 =>
               /\ FirstExpired(t)
               /\ th[t].refreshes = 1
               /\ th[t].refreshed = 1
        /\ ~FirstExpired(t) =>
               /\ Len(th[t].sent) <= 1
               /\ th[t].refreshes = 0

C14_Witness ==
    \E t \in Finished :
        /\ Len(th[t].sent) = 2
        /\ th[t].outcomes = << "TokenExpiredError", "response" >>
        /\ th[t].response.status = 200
        /\ th[t].sent[1].token # th[t].sent[2].token


\* The parameters each method must be given and sends in its parameter
\* mapping: key, position of the argument, and whether the method sends it
\* as the YYYY-MM-DD text of the datetime it validated.
RequiredParams(name) ==
    CASE name = "add_activities_log" ->
           { << "activityId", 1, FALSE >>, << "manualCalories", 2, FALSE >>,
             << "startTime", 3, FALSE >>, << "durationMillis", 4, FALSE >>,
             << "date", 5, TRUE >>, << "distance", 6, FALSE >> }
      [] name = "add_alarms" ->
           { << "time", 2, FALSE >>, << "enabled", 3, FALSE >>,
             << "recurring", 4, FALSE >>, << "weekDays", 5, FALSE >> }
      [] name = "add_foods_log" ->
           { << "foodId", 1, FALSE >>, << "mealTypeId", 2, FALSE >>,
             << "unitId", 3, FALSE >>, << "amount", 4, FALSE >>,
             << "date", 5, TRUE >> }
      [] name = "update_weight_goal" ->
           { << "startDate", 1, FALSE >>, << "startWeight", 2, FALSE >> }
      [] name = "add_update_foods_goal" -> { << "calories", 1, FALSE >> }
      [] name \in {"get_activities_log_list", "get_sleep_list"} ->
           { << "sort", 1, FALSE >>, << "offset", 2, FALSE >>,
             << "limit", 3, FALSE >> }
      [] OTHER -> {}

\* The parameters with a default of None: key and position of the argument.
OptionalParams(name) ==
    CASE name = "add_activities_log" ->
           { << "activityName", 7 >>, << "distanceUnit", 8 >> }
      [] name = "add_foods_log" ->
           { << "foodName", 6 >>, << "favorite", 7 >>, << "brandName", 8 >>,
             << "calories", 9 >> }
      [] name = "create_friends_invitations" ->
           { << "invitedUserEmail", 1 >>, << "invitedUserId", 2 >> }
      [] name = "update_weight_goal" -> { << "weight", 3 >> }
      [] name = "add_update_foods_goal" ->
           { << "intensity", 2 >>, << "personalized", 3 >> }
      [] name \in {"get_activities_log_list", "get_sleep_list"} ->
           { << "beforeDate", 4 >>, << "afterDate", 5 >> }
      [] name = "update_profile" ->
           { << "gender", 1 >>, << "birthday", 2 >> }
      [] OTHER -> {}

\* Those of the optional parameters that are documented as a datetime.
OptionalDates(name) ==
    CASE name \in {"get_activities_log_list", "get_sleep_list"} ->
           { << "beforeDate", 4 >>, << "afterDate", 5 >> }
      [] name = "update_profile" -> { << "birthday", 2 >> }
      [] OTHER -> {}

\* The values under a key of a parameter mapping.
ValuesOf(params, key) == {kv[2] : kv \in {x \in params.items : x[1] = key}}

\* The empty and falsy values of the claims: None, 0, False, ''.
FalsyValues == { PyNone, PyInt(0), PyBool(FALSE), PyStr("") }

\* C15: in every call that reaches the dispatcher, each required parameter
\* is in the parameter mapping, under its key, with the value the caller
\* passed (a validated date: with its YYYY-MM-DD text), whether that value
\* is truthy or falsy, and every request of the dispatch carries that
\* mapping.
C15_RequiredParamsPresent ==
    \A t \in Active :
        Dispatched(t) =>
            /\ \A r \in RequiredParams(th[t].name) :
                   ValuesOf(th[t].params, r[1]) =
                       { IF r[3] THEN PyStr(ExpectedDate(th[t].args[r[2]]))
                         ELSE th[t].args[r[2]] }
            /\ \A i \in 1..Len(th[t].sent) :
                   th[t].sent[i].params = th[t].params

C15_Witness ==
    \E t \in Finished :
        /\ th[t].name = "add_alarms"
        /\ th[t].args[2] = PyStr("")
        /\ th[t].args[3] = PyBool(FALSE)
        /\ th[t].args[5] = PyStr("")
        /\ Len(th[t].sent) = 1
        /\ << "enabled", PyBool(FALSE) >> \in th[t].sent[1].params.items
        /\ << "time", PyStr("") >> \in th[t].sent[1].params.items
        /\ th[t].response.status = 200

\* C16: in every call that reaches the dispatcher, an optional parameter
\* that was omitted (None) or given a falsy value (0, False, '') is not a
\* key of the parameter mapping, nor of any request of the dispatch.
C16_FalsyOptionalOmitted ==
    \A t \in Active :
        Dispatched(t) =>
            \A o \in OptionalParams(th[t].name) :
                th[t].args[o[2]] \in FalsyValues =>
                    /\ ValuesOf(th[t].params, o[1]) = {}
                    /\ \A i \in 1..Len(th[t].sent) :
                           ValuesOf(th[t].sent[i].params, o[1]) = {}

C16_Witness ==
    \E t \in Finished :
        /\ th[t].name = "add_foods_log"
        /\ th[t].args[6] = PyStr("")
        /\ th[t].args[7] = PyBool(FALSE)
        /\ th[t].args[8] = PyNone
        /\ th[t].args[9] = PyInt(0)
        /\ Len(th[t].sent) = 1
        /\ {kv[1] : kv \in th[t].sent[1].params.items} =
               {"foodId", "mealTypeId", "unitId", "amount", "date"}
        /\ th[t].response.status = 200


\* The success statuses.
Success == 200..299

\* C17 as stated: a dispatch whose response has a 2xx status returns the
\* parsed JSON body when the raw response was not asked for, and the
\* response object itself when it was.
C17_AsStated ==
    \A t \in Active :
        th[t].response.status \in Success =>
            /\ th[t].pc = "done"
            /\ ~th[t].full =>
                   th[t].result =
                       Result("return", "", {}, "", "json", th[t].response)
            /\ th[t].full =>
                   th[t].result =
                       Result("return", "", {}, "", "response",
                              th[t].response)

C19_ArgumentErrorBeforeNetwork ==
    \A t \in Active :
        /\ th[t].result.exc = "ValueError" =>
               /\ th[t].pc = "done"
               /\ th[t].result.kind = "raise"
               /\ ~ValidatedArgsOk(th[t].name, th[t].args)
               /\ NoNetwork(t)
               /\ th[t].outcomes = << >>
               /\ client.session.token = th[t].tokenBefore
        /\ ~ValidatedArgsOk(th[t].name, th[t].args) =>
               th[t].result.exc = "ValueError"

C19_Witness ==
    \E t \in Finished :
        /\ th[t].name = "get_activities_resource_by_date_range"
        /\ th[t].args[1] = PyStr("bogus")
        /\ th[t].args[2].type = "datetime"
        /\ th[t].args[3].type = "datetime"
        /\ AllGranted(t)
        /\ client.session.token \in expired
        /\ th[t].result = Raised("ValueError")
        /\ th[t].sent = << >>

\* C20: the scope list of the session is the one the constructor gave it,
\* in every state: after endpoint calls, dispatches and refreshes, accepted
\* or rejected; every call sees that same list.
C20_ScopeFixedAtConstruction ==
    client.exists =>
        /\ ctor.returned.exists
        /\ client.session.scope = ctor.returned.session.scope
        /\ \A t \in AllThreads :
               th[t].pc # "idle" =>
                   th[t].scope = ctor.returned.session.scope

C20_Witness ==
    /\ client.exists
    /\ ctor.args.scope = ScopeList(<< "activity" >>)
    /\ client.session.scope = << "activity" >>
    /\ client.session.token = Token(2)
    /\ ctor.returned.session.token = "123456789"
    /\ \E t \in Direct : th[t].pc = "done" /\ th[t].refreshed = 1


\* The client was constructed without a scope subset: scope left at None
\* or given as an empty list.
DefaultScope ==
    /\ client.exists
    /\ ctor.args.scope \in {ScopeNone, ScopeList(<< >>)}

\* C21 as stated: the scope list of a client constructed without a scope
\* subset holds ten distinct scope strings.
C21_AsStated ==
    DefaultScope =>
        /\ Len(client.session.scope) = 10
        /\ Cardinality(Range(client.session.scope)) = 10

\* C21, amended: the scope list of a client constructed without a scope
\* subset is the fixed list ALL_SCOPES, which has ten entries naming nine
\* distinct scopes: "nutrition" is listed twice.
C21_TenEntriesNineScopes ==
    DefaultScope =>
        /\ client.session.scope = ALL_SCOPES
        /\ Len(client.session.scope) = 10
        /\ Range(client.session.scope) =
               {"activity", "heartrate", "location", "nutrition", "profile",
                "settings", "sleep", "social", "weight"}
        /\ Cardinality(Range(client.session.scope)) = 9
        /\ client.session.scope[2] = "nutrition"
        /\ client.session.scope[5] = "nutrition"

C21_Witness ==
    /\ DefaultScope
    /\ ctor.op = "create_using_token"
    /\ ctor.args.scope = ScopeNone
    /\ Len(client.session.scope) = 10


\* The scope part of the authorization URL for each scope argument, written
\* out.
ExpectedScopeText(scope) ==
    CASE scope = ScopeList(<< "activity" >>) -> "activity"
      [] scope = ScopeList(<< "profile", "heartrate", "location" >>) ->
           "profile+heartrate+location"
      [] scope \in {ScopeNone, ScopeList(<< >>)} ->
           "activity+nutrition+heartrate+location+nutrition+profile+settings+sleep+social+weight"
      [] OTHER -> JoinScope(scope.list)

\* C22: OAuth2_step_one returns the authorization URL for
\* https://www.fitbit.com/oauth2/authorize carrying the given client_id,
\* the callback_uri as redirect_uri, the scopes (all scopes when none are
\* given) and the session's state; it calls the token endpoint zero times,
\* calls no callback, obtains no token and returns no client.
C22_StepOneReturnsUrl ==
    ctor.op = "OAuth2_step_one" =>
        /\ ctor.result = "url"
        /\ ctor.url =
               "https://www.fitbit.com/oauth2/authorize?response_type=code"
                   \o "&client_id=" \o ctor.args.client_id
                   \o "&redirect_uri=www.example.com%2Fcallback"
                   \o "&scope=" \o ExpectedScopeText(ctor.args.scope)
                   \o "&state=" \o ctor.state
        /\ ctor.args.callback_uri = "www.example.com/callback"
        /\ ctor.fetches = 0
        /\ ctor.cbArgs = << >>
        /\ ctor.vendorToken = NoToken
        /\ ~ctor.returned.exists
        /\ ~client.exists

C22_Witness ==
    /\ ctor.op = "OAuth2_step_one"
    /\ ctor.args.scope = ScopeList(<< "activity" >>)
    /\ ctor.url =
           "https://www.fitbit.com/oauth2/authorize?response_type=code&client_id=ABC123&redirect_uri=www.example.com%2Fcallback&scope=activity&state=123"


\* C23 as stated: in every call that reaches the dispatcher, each optional
\* parameter given a truthy value is in the parameter mapping under its key
\* (a date: as its YYYY-MM-DD text); update_profile with a gender or a
\* birthday dispatches a POST carrying them.
C23_AsStated ==
    \A t \in Active :
        Dispatched(t) =>
            \A o \in OptionalParams(th[t].name) :
                th[t].args[o[2]] \notin FalsyValues =>
                    ValuesOf(th[t].params, o[1]) =
                        { IF o \in OptionalDates(th[t].name)
                          THEN PyStr(ExpectedDate(th[t].args[o[2]]))
                          ELSE th[t].args[o[2]] }


\* C24: a dispatch that asked for the raw response and received a response
\* returns that response object, whatever its status (2xx with or without
\* a body, 304, 4xx, 429, 5xx): it raises nothing and does not return None.
C24_RawResponseAlwaysReturned ==
    \A t \in Active :
        (th[t].full /\ th[t].response # NoResponse) =>
            /\ th[t].pc = "done"
            /\ th[t].result =
                   Result("return", "", {}, "", "response", th[t].response)
            /\ th[t].result.resp.status \in {200, 204, 304, 401, 429, 500}

C24_Witness ==
    \E t \in Finished :
        /\ th[t].full
        /\ th[t].response = Response(429, "60")
        /\ th[t].result.kind = "return"
        /\ th[t].result.what = "response"
        /\ th[t].result.resp = Response(429, "60")


C26_RefreshNotSerialized ==
    /\ [](\A t \in AllThreads :
             th[t].pc = "refresh" => ENABLED RefreshSend(t))
    /\ [][\A t \in AllThreads :
             ( /\ th[t].pc = "refreshing"
               /\ th[t].inflight # NoToken
               /\ th'[t].pc # "refreshing" ) =>
                 client'.session.token = th[t].inflight]_vars

C26_Witness ==
    /\ \A t \in AllThreads :
           /\ FirstExpired(t)
           /\ th[t].refreshes = 1
           /\ th[t].refreshed = 1
           /\ th[t].presented = << "123456789" >>
    /\ th["t1"].refreshReturn = Token(1)
    /\ th["t2"].refreshReturn = Token(2)
    /\ client.session.token = Token(1)
    /\ "123456789" \in consumed


\* C27 as stated: OAuth2_step_two, of either module, called without a
\* callback and answered with a token by the vendor, returns a client
\* holding that token and raises nothing; no callback is called.
C27_AsStated ==
    ( /\ ctor.op \in {"OAuth2_step_two", "fitbit.OAuth2_step_two"}
      /\ ctor.args.new_token_callback = NoCallback
      /\ ctor.vendorToken # NoToken ) =>
        /\ ctor.result = "client"
        /\ ctor.exc = ""
        /\ ctor.returned.exists
        /\ ctor.returned.session.token = ctor.vendorToken
        /\ ctor.cbArgs = << >>


\* C28 as stated: for every optional date parameter, a call that leaves
\* its optional dates out (or gives datetimes) raises no argument error and
\* an omitted date is not a key of the parameter mapping; a call that gives
\* a truthy value that is not a datetime raises the argument error; and a
\* datetime is in the mapping of a call that reaches the dispatcher, as
\* its YYYY-MM-DD text.
C28_AsStated ==
    \A t \in Active :
        LET a == th[t].args
            dates == OptionalDates(th[t].name)
        IN /\ (dates # {} /\ \A o \in dates :
                   a[o[2]] = PyNone \/ a[o[2]].type = "datetime")
                  => th[t].result.exc # "ValueError"
           /\ (\E o \in dates :
                   a[o[2]].type # "datetime" /\ a[o[2]] \notin FalsyValues)
                  => /\ th[t].pc = "done"
                     /\ th[t].result.exc = "ValueError"
           /\ Dispatched(t) =>
                  \A o \in dates :
                      /\ a[o[2]] = PyNone =>
                             ValuesOf(th[t].params, o[1]) = {}
                      /\ a[o[2]].type = "datetime" =>
                             ValuesOf(th[t].params, o[1]) =
                                 { PyStr(ExpectedDate(a[o[2]])) }


\* C29: a client constructed without a scope subset (scope None or an
\* empty list) holds every scope any endpoint method requires: none of its
\* calls ends in InsufficientScope.
C29_DefaultScopeSuffices ==
    DefaultScope =>
        \A t \in Active :
            /\ RequiredScopeOf(th[t].name) \subseteq Range(th[t].scope)
            /\ RequiredScopeOf(th[t].name) \subseteq Range(ALL_SCOPES)
            /\ th[t].result.exc # "InsufficientScope"
            /\ th[t].result.missing = {}

C29_Witness ==
    /\ DefaultScope
    /\ ctor.args.scope = ScopeList(<< >>)
    /\ \E t \in Finished :
           /\ th[t].name = "update_weight_goal"
           /\ th[t].verb = "post"
           /\ th[t].response.status = 200
           /\ th[t].result.what = "json"

\* C30: a call whose first attempt did not signal token expiry makes no
\* refresh call, calls no callback and leaves the session's token as it
\* was when the call started, whatever the response (2xx, 429, any other
\* status, or a transport error); and in every step that changes the
\* session's token, the new token is the one a refresh has just returned.
C30_TokenChangesOnlyByRefresh ==
    /\ [](\A t \in Active :
             ~FirstExpired(t) =>
                 /\ th[t].refreshes = 0
                 /\ th[t].cbArgs = << >>
                 /\ th[t].inflight = NoToken
                 /\ client.session.token = th[t].tokenBefore)
    /\ [][(client.exists /\ client'.session.token # client.session.token) =>
             \E t \in AllThreads :
                 /\ th[t].pc = "refreshing"
                 /\ th[t].inflight # NoToken
                 /\ client'.session.token = th[t].inflight]_vars

C30_Witness ==
    \E t \in Finished :
        /\ ~FirstExpired(t)
        /\ Len(th[t].sent) = 1
        /\ th[t].response.status = 401
        /\ th[t].refreshes = 0
        /\ th[t].cbArgs = << >>
        /\ client.session.token = th[t].tokenBefore
        /\ client.session.token_updater = "save_token"
        /\ client.session.token = Token(1)

====
